---- MODULE Spec2Model ----
(***************************************************************************)
(* Model of the two localisation command-line utilities of                 *)
(* norland-Indonesia:                                                      *)
(*   - the chunk exporter / translation applier (extract, update,          *)
(*     update-all), src/unnamed/part_000;                                  *)
(*   - the column splitter / merger (split, merge), src/extract_langs.js.  *)
(* A text is a sequence of one-character strings, so that the regular      *)
(* expressions of the code are computed character by character.            *)
(***************************************************************************)
EXTENDS Integers, Sequences, FiniteSets, TLC

VARIABLES
    \* token validation of one (original, translated) pair
    vOriginal, vTranslated, vErrors, vPc,
    \* the files of the chunk exporter / translation applier
    englishCsv,     \* english.csv, the fixed input of update
    otherCsv,       \* another CSV a user may name as <input_csv>
    outputJson,     \* output_json/: file name -> JSON array
    updatedCsv,     \* updated_english.csv: Absent or the rows written
    exitCode,       \* exit status of the last invocation
    run,            \* the last invocation: command, argument, what it read
    \* the files of the column splitter / merger
    originalCsv,    \* the master CSV: Absent or a table
    newLangCsv,     \* a translated per-language CSV handed to merge
    splitDir,       \* the output directory of split
    mergedCsv,      \* the output file of merge
    mExit,          \* exit status of the last split / merge invocation
    mRun            \* the last split / merge invocation

validatorVars == <<vOriginal, vTranslated, vErrors, vPc>>
applierVars == <<englishCsv, otherCsv, outputJson, updatedCsv, exitCode, run>>
mergerVars == <<originalCsv, newLangCsv, splitDir, mergedCsv, mExit, mRun>>
vars == <<validatorVars, applierVars, mergerVars>>

(***************************************************************************)
(* Bounds.                                                                 *)
(***************************************************************************)
MaxFrags == 2
\* The program fixes chunkSize = 100 (part_000 line 15); the model scales it
\* down, and every formula below is stated for whatever value it has.
chunkSize == 2
MaxRows == 3
MaxCodecRows == 19
MaxMergeRows == 2

(***************************************************************************)
(* Characters and texts.                                                   *)
(***************************************************************************)
\* \w of the regular expressions, restricted to the alphabet of the model.
WordChars == {"a", "b", "c", "d", "h", "i", "k", "l", "o", "r", "s", "x", "y",
              "0", "1", "2", "3", "4", "5", "6", "7", "8", "9"}

IsWord(c) == c \in WordChars

\* Length of the maximal run of \w characters of s that starts at i.
RECURSIVE WordRun(_, _)
WordRun(s, i) ==
    IF i <= Len(s) /\ IsWord(s[i]) THEN 1 + WordRun(s, i + 1) ELSE 0

\* Index of the first occurrence of c in s at or after i, 0 when there is none.
RECURSIVE IndexFrom(_, _, _)
IndexFrom(s, c, i) ==
    IF i > Len(s) THEN 0
    ELSE IF s[i] = c THEN i
    ELSE IndexFrom(s, c, i + 1)

\* All capture groups of /\{(\w+)\}/g found in s from position i on.
RECURSIVE VarMatches(_, _)
VarMatches(s, i) ==
    IF i > Len(s) THEN {}
    ELSE LET n == WordRun(s, i + 1)
         IN  IF s[i] = "{" /\ n >= 1 /\ i + n + 1 <= Len(s) /\ s[i + n + 1] = "}"
             THEN {SubSeq(s, i + 1, i + n)} \cup VarMatches(s, i + n + 2)
             ELSE VarMatches(s, i + 1)

\* All capture groups of /<[^=]+=(\w+)>/g found in s from position i on.
RECURSIVE AttrMatches(_, _)
AttrMatches(s, i) ==
    IF i > Len(s) THEN {}
    ELSE LET k == IndexFrom(s, "=", i + 1)
             n == IF k = 0 THEN 0 ELSE WordRun(s, k + 1)
         IN  IF /\ s[i] = "<"
                /\ k >= i + 2
                /\ n >= 1
                /\ k + n + 1 <= Len(s)
                /\ s[k + n + 1] = ">"
             THEN {SubSeq(s, k + 1, k + n)} \cup AttrMatches(s, k + n + 2)
             ELSE AttrMatches(s, i + 1)

extractPlaceholders(value) == VarMatches(value, 1) \cup AttrMatches(value, 1)

\* (value.match(/\$/g) || []).length
dollarCount(value) == Cardinality({i \in 1..Len(value) : value[i] = "$"})

\* value.match(/<[^>]+>/g) || [] from position i on.
RECURSIVE TagMatches(_, _)
TagMatches(s, i) ==
    IF i > Len(s) THEN <<>>
    ELSE LET k == IndexFrom(s, ">", i + 1)
         IN  IF s[i] = "<" /\ k >= i + 2
             THEN <<SubSeq(s, i, k)>> \o TagMatches(s, k + 1)
             ELSE TagMatches(s, i + 1)

matchTags(value) == TagMatches(value, 1)

(***************************************************************************)
(* The three checks of one (original, translated) pair, as the loop body   *)
(* of updateCsvWithTranslation and updateCsvWithAllTranslations makes      *)
(* them; rowNo is the 1-based row number of the message.                   *)
(***************************************************************************)
placeholderMismatchAlt(origPlaceholders, transPlaceholders) ==
    ~ (\A ph \in origPlaceholders : ph \in transPlaceholders)

placeholderMismatch(origPlaceholders, transPlaceholders) ==
    \/ Cardinality(origPlaceholders) # Cardinality(transPlaceholders)
    \/ ~ (\A ph \in origPlaceholders : ph \in transPlaceholders)

tagMismatch(origTags, transTags) ==
    \/ Len(origTags) # Len(transTags)
    \/ ~ (\A index \in 1..Len(origTags) : origTags[index] = transTags[index])

pairErrors(originalValue, transValue, rowNo) ==
    LET origPlaceholders == extractPlaceholders(originalValue)
        transPlaceholders == extractPlaceholders(transValue)
        origDollarCount == dollarCount(originalValue)
        transDollarCount == dollarCount(transValue)
        origTags == matchTags(originalValue)
        transTags == matchTags(transValue)
    IN  (IF placeholderMismatch(origPlaceholders, transPlaceholders)
         THEN << [row |-> rowNo, kind |-> "placeholder",
                  orig |-> origPlaceholders \ transPlaceholders,
                  trans |-> transPlaceholders \ origPlaceholders] >>
         ELSE <<>>)
        \o
        (IF origDollarCount # transDollarCount
         THEN << [row |-> rowNo, kind |-> "dollar",
                  orig |-> origDollarCount, trans |-> transDollarCount] >>
         ELSE <<>>)
        \o
        (IF tagMismatch(origTags, transTags)
         THEN << [row |-> rowNo, kind |-> "tag",
                  orig |-> origTags, trans |-> transTags] >>
         ELSE <<>>)

(***************************************************************************)
(* Texts of the validator specification: concatenations of at most         *)
(* MaxFrags fragments.                                                     *)
(***************************************************************************)
Frags == { <<"{", "a", "}">>, <<"{", "b", "}">>, <<"$">>,
           <<"<", "b", ">">>, <<"<", "c", "=", "a", ">">>, <<"<">>, <<"x">> }

RECURSIVE TextsOf(_)
TextsOf(n) ==
    IF n = 0 THEN {<<>>}
    ELSE LET prev == TextsOf(n - 1)
         IN  prev \cup {t \o f : t \in prev, f \in Frags}

Texts == TextsOf(MaxFrags)

\* A file of the working directory: absent, or present with its rows.
Absent == [exists |-> FALSE, rows |-> <<>>]
File(rows) == [exists |-> TRUE, rows |-> rows]
NoRun == [cmd |-> "none", arg |-> 0, failure |-> "none", length |-> 0,
          translations |-> <<>>, overPrior |-> FALSE]

ApplierIdle ==
    /\ englishCsv = <<>>
    /\ otherCsv = <<>>
    /\ outputJson = <<>>
    /\ updatedCsv = Absent
    /\ exitCode = 0
    /\ run = NoRun

NoDir == [exists |-> FALSE, headers |-> <<>>, files |-> <<>>]
NoMergerRun == [cmd |-> "none", outcome |-> "none", newLang |-> <<>>,
                newLangName |-> <<>>, matchingKeys |-> {}, missingInNew |-> {},
                ignoredInNew |-> {}, warned |-> FALSE]

MergerIdle ==
    /\ originalCsv = Absent
    /\ newLangCsv = Absent
    /\ splitDir = NoDir
    /\ mergedCsv = Absent
    /\ mExit = 0
    /\ mRun = NoMergerRun

ValidatorIdle ==
    /\ vOriginal = <<>>
    /\ vTranslated = <<>>
    /\ vErrors = <<>>
    /\ vPc = "idle"

InitValidator ==
    /\ vOriginal \in Texts
    /\ vTranslated \in Texts
    /\ vErrors = <<>>
    /\ vPc = "start"
    /\ ApplierIdle
    /\ MergerIdle

\* One pass of the validation loop body over the pair.
Validate ==
    /\ vPc = "start"
    /\ vErrors' = pairErrors(vOriginal, vTranslated, 1)
    /\ vPc' = "done"
    /\ UNCHANGED <<vOriginal, vTranslated, applierVars, mergerVars>>

NextValidator == Validate

SpecValidator == InitValidator /\ [][NextValidator]_vars

(***************************************************************************)
(* The chunk exporter / translation applier (src/unnamed/part_000).        *)
(* A CSV file is the sequence of row objects csv-parser yields for it, a   *)
(* row being [Key, English]; a chunk file output_json/data_<N>.json is     *)
(* named by the digits <N> of its file name.                               *)
(***************************************************************************)
Min(a, b) == IF a <= b THEN a ELSE b

DigitChars == <<"0", "1", "2", "3", "4", "5", "6", "7", "8", "9">>

\* The decimal digits of n, as the template literal `data_${chunkIndex}.json`
\* prints them.
RECURSIVE Digits(_)
Digits(n) ==
    IF n < 10 THEN <<DigitChars[n + 1]>>
    ELSE Digits(n \div 10) \o <<DigitChars[(n % 10) + 1]>>

DigitValue(c) == CHOOSE d \in 0..9 : DigitChars[d + 1] = c

\* parseInt of the (\d+) group of /data_(\d+)\.json/.
RECURSIVE parseInt(_)
parseInt(ds) ==
    IF Len(ds) = 0 THEN 0
    ELSE 10 * parseInt(SubSeq(ds, 1, Len(ds) - 1)) + DigitValue(ds[Len(ds)])

KeyText(i) == <<"k">> \o Digits(i)

CsvOf(texts) ==
    [i \in 1..Len(texts) |-> [Key |-> KeyText(i), English |-> texts[i]]]

\* row.English ? row.English : " "
exportValue(row) == IF row.English # <<>> THEN row.English ELSE <<" ">>

\* results.slice(i, i + chunkSize), i 0-based.
slice(results, i, j) == SubSeq(results, i + 1, Min(j, Len(results)))

\* The directory after extractEnglishToJson has written its chunk files into
\* it: the for loop writes data_1 .. data_ceil(n / chunkSize) and touches no
\* other file.
extractEnglishToJson(rows, dir) ==
    LET results == [i \in 1..Len(rows) |-> exportValue(rows[i])]
        lastIndex == (Len(results) + chunkSize - 1) \div chunkSize
        written == {Digits(c) : c \in 1..lastIndex}
    IN  [name \in (DOMAIN dir) \cup written |->
            IF name \in written
            THEN LET c == parseInt(name)
                 IN  slice(results, (c - 1) * chunkSize, c * chunkSize)
            ELSE dir[name]]

\* Plain string comparison of two file names, the order of readdirSync and
\* of a sort() without comparator.
RECURSIVE LexLess(_, _)
LexLess(a, b) ==
    IF Len(b) = 0 THEN FALSE
    ELSE IF Len(a) = 0 THEN TRUE
    ELSE IF a[1] # b[1] THEN DigitValue(a[1]) < DigitValue(b[1])
    ELSE LexLess(Tail(a), Tail(b))

indexLess(a, b) == parseInt(a) < parseInt(b)

RECURSIVE SortLex(_)
SortLex(names) ==
    IF names = {} THEN <<>>
    ELSE LET first == CHOOSE a \in names : \A b \in names \ {a} : LexLess(a, b)
         IN  <<first>> \o SortLex(names \ {first})

\* names sorted with the comparator (a, b) => aIdx - bIdx
RECURSIVE SortByIndex(_)
SortByIndex(names) ==
    IF names = {} THEN <<>>
    ELSE LET first == CHOOSE a \in names : \A b \in names \ {a} : indexLess(a, b)
         IN  <<first>> \o SortByIndex(names \ {first})

jsonFilesLex(dir) == SortLex(DOMAIN dir)

\* readdirSync(outputDir).filter(.json).sort((a, b) => aIdx - bIdx)
jsonFiles(dir) == SortByIndex(DOMAIN dir)

RECURSIVE ConcatAll(_, _)
ConcatAll(dir, files) ==
    IF files = <<>> THEN <<>>
    ELSE dir[Head(files)] \o ConcatAll(dir, Tail(files))

\* allTranslations of updateCsvWithAllTranslations.
allTranslations(dir) == ConcatAll(dir, jsonFiles(dir))

\* valueErrors of the verification loop over rows start+1 .. start+Len(trans)
\* (1-based) against trans.
RECURSIVE valueErrorsFrom(_, _, _, _)
valueErrorsFrom(rows, trans, start, j) ==
    IF j > Len(trans) THEN <<>>
    ELSE pairErrors(rows[start + j].English, trans[j], start + j)
         \o valueErrorsFrom(rows, trans, start, j + 1)

\* The rows after the update loop has assigned trans to the English field
\* of rows start+1 .. start+Len(trans).
applyFromFirstRow(rows, trans, start) ==
    [i \in 1..Len(rows) |->
        IF i <= Len(trans)
        THEN [rows[i] EXCEPT !.English = trans[i]]
        ELSE rows[i]]

applyTranslations(rows, trans, start) ==
    [i \in 1..Len(rows) |->
        IF i > start /\ i <= start + Len(trans)
        THEN [rows[i] EXCEPT !.English = trans[i - start]]
        ELSE rows[i]]

CsvTexts == {<<>>, <<"{", "a", "}">>}
TransTexts == {<<"y">>, <<"{", "a", "}", "y">>}

\* Chunk indices a user may name: 0, every chunk of the largest CSV, and one
\* past it.
MaxChunkArg == ((MaxRows + chunkSize - 1) \div chunkSize) + 1

RECURSIVE SeqsUpTo(_, _)
SeqsUpTo(S, n) ==
    IF n = 0 THEN {<<>>}
    ELSE LET prev == SeqsUpTo(S, n - 1)
         IN  prev \cup {Append(t, x) : t \in prev, x \in S}

CsvFiles == {CsvOf(t) : t \in SeqsUpTo(CsvTexts, MaxRows)}
OtherFiles == {CsvOf([i \in 1..n |-> <<"{", "a", "}">>]) : n \in {0, chunkSize}}
ChunkArrays == SeqsUpTo(TransTexts, chunkSize)

InitApplier ==
    /\ englishCsv \in CsvFiles
    /\ otherCsv \in OtherFiles
    /\ outputJson = <<>>
    /\ updatedCsv = Absent
    /\ exitCode = 0
    /\ run = NoRun
    /\ ValidatorIdle
    /\ MergerIdle

InputCsv(file) == IF file = "english.csv" THEN englishCsv ELSE otherCsv

\* node script.js extract <input_csv>
Extract(file) ==
    /\ outputJson' = extractEnglishToJson(InputCsv(file), outputJson)
    /\ exitCode' = 0
    /\ run' = [cmd |-> "extract", arg |-> file, failure |-> "none",
               length |-> Len(InputCsv(file)), translations |-> <<>>,
               overPrior |-> FALSE]
    /\ UNCHANGED <<englishCsv, otherCsv, updatedCsv, validatorVars, mergerVars>>

\* What updateCsvWithTranslation decides for english.csv, a chunk file named
\* data_<name>.json and its parsed array: the failure ("none" on success), the
\* errors collected and the rows written.
updateCsvWithTranslation(originalRows, name, translations) ==
    LET chunkIndex == parseInt(name)
        startIndex == (chunkIndex - 1) * chunkSize
        expectedLength == Min(chunkSize, Len(originalRows) - startIndex)
        lengthOk == Len(translations) = expectedLength
        \* originalRows[idx] is undefined for a negative idx: reading its
        \* English field throws, and the catch clause exits with status 1
        thrown == lengthOk /\ startIndex < 0 /\ Len(translations) > 0
        valueErrors == IF lengthOk /\ ~thrown
                       THEN valueErrorsFrom(originalRows, translations, startIndex, 1)
                       ELSE <<>>
    IN  [failure |-> IF ~lengthOk THEN "length"
                     ELSE IF thrown THEN "exception"
                     ELSE IF valueErrors # <<>> THEN "value"
                     ELSE "none",
         expectedLength |-> expectedLength,
         valueErrors |-> valueErrors,
         rows |-> IF lengthOk /\ ~thrown /\ valueErrors = <<>>
                  THEN applyTranslations(originalRows, translations, startIndex)
                  ELSE <<>>]

\* The file updated_english.csv after an invocation with outcome res.
writeUnlessLength(res, file) ==
    IF res.failure = "length" THEN file ELSE File(res.rows)

writeIfOk(res, file) == IF res.failure = "none" THEN File(res.rows) ELSE file

\* The rows update starts from, given english.csv and the output file of
\* earlier invocations.
updateInputPrior(english, updated) ==
    IF updated.exists THEN updated.rows ELSE english

updateInput(english, updated) == english

\* Whether the output file an update of n values at offset start finds in
\* place holds, outside the index range of that update, a row that differs
\* from the same row of english.csv (recorded in run, read by no command).
priorTranslated(updated, english, start, n) ==
    /\ updated.exists
    /\ \E i \in 1..Min(Len(updated.rows), Len(english)) :
          /\ (i <= start \/ i > start + n)
          /\ updated.rows[i] # english[i]

\* node script.js update <dir>/data_<N>.json, the file holding translations
Update(N, translations) ==
    LET name == Digits(N)
        res == updateCsvWithTranslation(updateInput(englishCsv, updatedCsv),
                                        name, translations)
    IN  /\ updatedCsv' = writeIfOk(res, updatedCsv)
        /\ exitCode' = IF res.failure = "none" THEN 0 ELSE 1
        /\ run' = [cmd |-> "update", arg |-> N, failure |-> res.failure,
                   length |-> Len(translations),
                   translations |-> IF res.failure = "none"
                                    THEN translations ELSE <<>>,
                   overPrior |-> priorTranslated(updatedCsv, englishCsv,
                                     (N - 1) * chunkSize, Len(translations))]
        /\ UNCHANGED <<englishCsv, otherCsv, outputJson, validatorVars,
                       mergerVars>>

updateCsvWithAllTranslations(originalRows, dir) ==
    LET all == allTranslations(dir)
        lengthOk == Len(originalRows) = Len(all)
        valueErrors == IF lengthOk
                       THEN valueErrorsFrom(originalRows, all, 0, 1)
                       ELSE <<>>
    IN  [failure |-> IF ~lengthOk THEN "length"
                     ELSE IF valueErrors # <<>> THEN "value"
                     ELSE "none",
         expectedLength |-> Len(originalRows),
         valueErrors |-> valueErrors,
         rows |-> IF lengthOk /\ valueErrors = <<>>
                  THEN applyTranslations(originalRows, all, 0)
                  ELSE <<>>]

\* node script.js update-all <input_csv>
UpdateAll(file) ==
    LET res == updateCsvWithAllTranslations(InputCsv(file), outputJson)
    IN  /\ updatedCsv' = writeIfOk(res, updatedCsv)
        /\ exitCode' = IF res.failure = "none" THEN 0 ELSE 1
        /\ run' = [cmd |-> "update-all", arg |-> file, failure |-> res.failure,
                   length |-> Len(allTranslations(outputJson)),
                   translations |-> IF res.failure = "none"
                                    THEN allTranslations(outputJson) ELSE <<>>,
                   overPrior |-> FALSE]
        /\ UNCHANGED <<englishCsv, otherCsv, outputJson, validatorVars,
                       mergerVars>>

CsvArgs == {"english.csv", "other.csv"}

NextApplier ==
    \/ \E file \in CsvArgs : Extract(file)
    \/ \E N \in 0..MaxChunkArg, translations \in ChunkArrays :
          Update(N, translations)
    \/ \E file \in CsvArgs : UpdateAll(file)

SpecApplier == InitApplier /\ [][NextApplier]_vars

(***************************************************************************)
(* The chunk codec alone: english.csv is a long CSV whose row i holds the  *)
(* text "r<i>", at most one row being empty; it is extracted into an empty *)
(* output_json/ and read back by update-all.                               *)
(***************************************************************************)
RowText(i) == <<"r">> \o Digits(i)

CodecFiles ==
    {CsvOf([i \in 1..n |-> IF i = e THEN <<>> ELSE RowText(i)]) :
        n \in 0..MaxCodecRows, e \in 0..MaxCodecRows}

InitCodec ==
    /\ englishCsv \in CodecFiles
    /\ otherCsv = <<>>
    /\ outputJson = <<>>
    /\ updatedCsv = Absent
    /\ exitCode = 0
    /\ run = NoRun
    /\ ValidatorIdle
    /\ MergerIdle

NextCodec ==
    \/ Extract("english.csv")
    \/ UpdateAll("english.csv")

SpecCodec == InitCodec /\ [][NextCodec]_vars

(***************************************************************************)
(* Properties of the chunk exporter / translation applier.                 *)
(***************************************************************************)
\* The export policy, stated apart from the code: an empty value becomes
\* a single space.
Exported(rows) ==
    [i \in 1..Len(rows) |->
        IF rows[i].English = <<>> THEN <<" ">> ELSE rows[i].English]

\* The batch of an update or update-all invocation: the rows it read and
\* the 0-based offset of its first pair.
BatchRows(r) == IF r.cmd = "update" THEN englishCsv ELSE InputCsv(r.arg)
BatchStart(r) == IF r.cmd = "update" THEN (r.arg - 1) * chunkSize ELSE 0

PairOk(originalValue, transValue) ==
    /\ extractPlaceholders(originalValue) = extractPlaceholders(transValue)
    /\ dollarCount(originalValue) = dollarCount(transValue)
    /\ matchTags(originalValue) = matchTags(transValue)

IsUpdateRun(r) == r.cmd \in {"update", "update-all"}

\* C2: update and update-all are all-or-nothing. A step of either command
\* that fails (length check, token mismatch or exception) leaves
\* updated_english.csv exactly as it was and exits with status 1; a step
\* that writes the file does so only when the batch has the expected length
\* and every (original, translated) pair of it passes the three token checks.
C2_AllOrNothing ==
    [][ IsUpdateRun(run') =>
          /\ (run'.failure # "none" =>
                updatedCsv' = updatedCsv /\ exitCode' = 1)
          /\ (updatedCsv' # updatedCsv => run'.failure = "none")
          /\ (run'.failure = "none" =>
                LET rows == BatchRows(run')
                    start == BatchStart(run')
                    trans == run'.translations
                IN  /\ start >= 0
                    /\ start + Len(trans) <= Len(rows)
                    /\ run'.cmd = "update-all" => Len(trans) = Len(rows)
                    /\ \A j \in 1..Len(trans) :
                          PairOk(rows[start + j].English, trans[j])
                    /\ updatedCsv'.exists
                    /\ exitCode' = 0) ]_vars

\* A failed validation reached while an earlier successful update's output is
\* in place.
C2_Witness ==
    /\ IsUpdateRun(run)
    /\ run.failure = "value"
    /\ updatedCsv.exists
    /\ updatedCsv.rows # englishCsv

ExpectedLength(N) == Min(chunkSize, Len(englishCsv) - (N - 1) * chunkSize)

C4_LengthCheck ==
    run.cmd = "update" =>
        (run.failure = "length" <=> run.length # ExpectedLength(run.arg))

C4_Frame ==
    (run.cmd = "update" /\ run.failure = "none") =>
        LET start == (run.arg - 1) * chunkSize
        IN  /\ updatedCsv.exists
            /\ Len(updatedCsv.rows) = Len(englishCsv)
            /\ \A i \in 1..Len(englishCsv) :
                  IF i > start /\ i <= start + run.length
                  THEN /\ updatedCsv.rows[i].English = run.translations[i - start]
                       /\ updatedCsv.rows[i].Key = englishCsv[i].Key
                  ELSE updatedCsv.rows[i] = englishCsv[i]

\* C4 as stated: update of data_N.json fails with a length mismatch unless
\* the chunk's length is min(chunkSize, totalRows - startOffset), so that N = 0
\* and every N whose offset lies at or beyond the row count is never applied;
\* on success value j lands in the English field of row startOffset + j and
\* nothing else changes.
C4_Original ==
    /\ C4_LengthCheck
    /\ C4_Frame
    /\ (run.cmd = "update"
          /\ (run.arg = 0 \/ (run.arg - 1) * chunkSize >= Len(englishCsv)))
            => run.failure # "none"

\* C4 as amended: as above, except that only N = 0 and the N whose offset lies
\* beyond the row count can never be applied; when the offset equals the row
\* count the expected length is 0, the empty chunk passes the length check,
\* and the update succeeds, writing the CSV with no row changed.
C4_ApplyChunk ==
    /\ C4_LengthCheck
    /\ C4_Frame
    /\ (run.cmd = "update"
          /\ (run.arg = 0 \/ (run.arg - 1) * chunkSize > Len(englishCsv)))
            => run.failure # "none"
    /\ (run.cmd = "update" /\ run.failure = "none"
          /\ (run.arg - 1) * chunkSize = Len(englishCsv))
            => run.length = 0 /\ updatedCsv = File(englishCsv)

\* A successful update of the second chunk that changes a row's text.
C4_Witness ==
    /\ run.cmd = "update"
    /\ run.arg = 2
    /\ run.failure = "none"
    /\ run.length >= 1
    /\ updatedCsv.rows # englishCsv

\* C3: the chunk round trip. After an extract of S into an empty directory
\* the files are exactly data_1 .. data_ceil(|S|/chunkSize), chunk i holds the
\* exported values of source indices [(i-1)*chunkSize, i*chunkSize), and the
\* files read in ascending numeric order and concatenated give S with every
\* empty value replaced by a single space.
C3_RoundTrip ==
    (run.cmd = "extract" \/ outputJson # <<>>) =>
        LET S == Exported(englishCsv)
            n == Len(S)
            k == (n + chunkSize - 1) \div chunkSize
        IN  /\ DOMAIN outputJson = {Digits(i) : i \in 1..k}
            /\ \A i \in 1..k :
                  LET lo == (i - 1) * chunkSize
                      hi == Min(i * chunkSize, n)
                  IN  outputJson[Digits(i)] = [j \in 1..(hi - lo) |-> S[lo + j]]
            /\ allTranslations(outputJson) = S
            /\ (run.cmd = "update-all" =>
                  /\ run.failure = "none"
                  /\ updatedCsv =
                       File([i \in 1..n |->
                                [englishCsv[i] EXCEPT !.English = S[i]]]))

\* Ten chunk files, the last one short, one value empty, read back by
\* update-all.
C3_Witness ==
    /\ run.cmd = "update-all"
    /\ Cardinality(DOMAIN outputJson) >= 10
    /\ Len(englishCsv) % chunkSize # 0
    /\ \E i \in 1..Len(englishCsv) : englishCsv[i].English = <<>>

\* C10: after every extract, whatever ran before it, the chunk files of
\* output_json read in ascending index order reconstruct the exported values
\* of the CSV just extracted.
C10_ChunkDirInvariant ==
    run.cmd = "extract" =>
        allTranslations(outputJson) = Exported(InputCsv(run.arg))

\* C11: single-chunk updates do not accumulate. Every step of update that
\* succeeds leaves updated_english.csv equal to english.csv with only the
\* index range of that chunk replaced by its translations, whatever the
\* file held before (the rows of a chunk applied earlier are back to their
\* original values); every step of update that fails leaves the file as
\* the last successful invocation wrote it; english.csv is never changed.
C11_NoAccumulation ==
    [][ run'.cmd = "update" =>
          /\ englishCsv' = englishCsv
          /\ (run'.failure # "none" => updatedCsv' = updatedCsv)
          /\ (run'.failure = "none" =>
                LET start == (run'.arg - 1) * chunkSize
                    trans == run'.translations
                IN  /\ updatedCsv'.exists
                    /\ Len(updatedCsv'.rows) = Len(englishCsv)
                    /\ \A i \in 1..Len(englishCsv) :
                          IF i > start /\ i <= start + Len(trans)
                          THEN updatedCsv'.rows[i] =
                                  [englishCsv[i] EXCEPT
                                      !.English = trans[i - start]]
                          ELSE updatedCsv'.rows[i] = englishCsv[i]) ]_vars

\* A successful update of a non-empty chunk over an output file in which an
\* earlier invocation had translated a row outside that chunk: the row is
\* back to its original value.
C11_Witness ==
    /\ run.cmd = "update"
    /\ run.failure = "none"
    /\ run.length >= 1
    /\ run.overPrior
    /\ updatedCsv.rows # englishCsv
    /\ \A i \in 1..Len(englishCsv) :
          (i <= (run.arg - 1) * chunkSize
             \/ i > (run.arg - 1) * chunkSize + run.length)
            => updatedCsv.rows[i] = englishCsv[i]

(***************************************************************************)
(* Properties of the token validator.                                      *)
(***************************************************************************)
Txt_ab == <<"{", "a", "}", "{", "b", "}">>
Txt_ba == <<"{", "b", "}", "{", "a", "}">>
Txt_a == <<"{", "a", "}">>
Txt_bold == <<"<", "b", ">", "h", "i", "<", "/", "b", ">">>
Txt_ital == <<"<", "i", ">", "h", "i", "<", "/", "i", ">">>
Txt_attr == <<"<", "c", "=", "a", ">">>

Kinds(errors) == {errors[i].kind : i \in 1..Len(errors)}

\* C9: a pair reports no mismatch exactly when its placeholder sets ({name}
\* identifiers and <key=value> attribute values together) are equal, its
\* numbers of '$' are equal and its tag sequences are equal; each kind of
\* mismatch is reported exactly when its own condition fails; and the
\* examples of the specification come out as stated.
C9_Validator ==
    /\ vPc = "done" =>
          /\ (vErrors = <<>> <=> PairOk(vOriginal, vTranslated))
          /\ ("placeholder" \in Kinds(vErrors) <=>
                extractPlaceholders(vOriginal) # extractPlaceholders(vTranslated))
          /\ ("dollar" \in Kinds(vErrors) <=>
                dollarCount(vOriginal) # dollarCount(vTranslated))
          /\ ("tag" \in Kinds(vErrors) <=>
                matchTags(vOriginal) # matchTags(vTranslated))
          /\ (vOriginal = vTranslated => vErrors = <<>>)
    /\ extractPlaceholders(Txt_ab) = {<<"a">>, <<"b">>}
    /\ extractPlaceholders(Txt_attr) = {<<"a">>}
    /\ matchTags(Txt_bold) = << <<"<", "b", ">">>, <<"<", "/", "b", ">">> >>
    /\ pairErrors(Txt_ab, Txt_ba, 1) = <<>>
    /\ pairErrors(Txt_a, Txt_ab, 1) =
          << [row |-> 1, kind |-> "placeholder", orig |-> {},
              trans |-> {<<"b">>}] >>
    /\ Kinds(pairErrors(Txt_bold, Txt_ital, 1)) = {"tag"}
    /\ Kinds(pairErrors(Txt_a, Txt_attr, 1)) = {"tag"}

\* Two different texts with the same two placeholders in another order pass.
C9_Witness ==
    /\ vPc = "done"
    /\ vErrors = <<>>
    /\ vOriginal # vTranslated
    /\ Cardinality(extractPlaceholders(vOriginal)) = 2

(***************************************************************************)
(* The column splitter / merger (src/extract_langs.js).                    *)
(* A CSV file is a table [header, body]: the header is a sequence of       *)
(* distinct column names, the body a sequence of lines, each a sequence of *)
(* at most Len(header) cells. csv-parser turns a line into a row object    *)
(* with one property per cell present; the own properties of a JavaScript  *)
(* object enumerate integer-like names first, in ascending order, then the *)
(* other names in insertion order.                                         *)
(***************************************************************************)
Range(seq) == {seq[i] : i \in 1..Len(seq)}

KeyCol == <<"K", "e", "y">>
CommentsCol == <<"C", "o", "m", "m", "e", "n", "t", "s">>
TimestampCol == <<"T", "i", "m", "e", "s", "t", "a", "m", "p">>
EnCol == <<"E", "n">>
FrCol == <<"F", "r">>
NumCol == <<"2">>

IsDigit(c) == c \in Range(DigitChars)

\* A canonical array index: decimal digits without a leading zero.
IsArrayIndex(name) ==
    /\ Len(name) >= 1
    /\ \A i \in 1..Len(name) : IsDigit(name[i])
    /\ (Len(name) = 1 \/ name[1] # "0")

RECURSIVE SelectNames(_, _)
SelectNames(names, keepIndex) ==
    IF names = <<>> THEN <<>>
    ELSE (IF IsArrayIndex(Head(names)) = keepIndex THEN <<Head(names)>> ELSE <<>>)
         \o SelectNames(Tail(names), keepIndex)

\* Object.keys of an object whose properties were set in the order of names.
ObjectKeys(names) ==
    SortByIndex(Range(SelectNames(names, TRUE))) \o SelectNames(names, FALSE)

IndexOfName(names, n) == CHOOSE i \in 1..Len(names) : names[i] = n

\* The row object csv-parser pushes for one line.
RowObject(header, cells) ==
    LET names == SubSeq(header, 1, Len(cells))
    IN  [keys |-> ObjectKeys(names),
         val |-> [n \in Range(names) |-> cells[IndexOfName(names, n)]]]

\* row[name] || ''
OrEmpty(row, name) == IF name \in DOMAIN row.val THEN row.val[name] ELSE <<>>

\* String.prototype.trim, the only white space of the model being " ".
RECURSIVE TrimLeft(_)
TrimLeft(t) == IF t # <<>> /\ Head(t) = " " THEN TrimLeft(Tail(t)) ELSE t

RECURSIVE TrimRight(_)
TrimRight(t) ==
    IF t # <<>> /\ t[Len(t)] = " " THEN TrimRight(SubSeq(t, 1, Len(t) - 1)) ELSE t

trim(t) == TrimRight(TrimLeft(t))

\* row.Key && row.Key.trim() !== ''
hasKey(row) ==
    /\ KeyCol \in DOMAIN row.val
    /\ row.val[KeyCol] # <<>>
    /\ trim(row.val[KeyCol]) # <<>>

RECURSIVE KeptFrom(_, _)
KeptFrom(header, body) ==
    IF body = <<>> THEN <<>>
    ELSE LET row == RowObject(header, Head(body))
         IN  (IF hasKey(row) THEN <<row>> ELSE <<>>) \o KeptFrom(header, Tail(body))

\* The rows the 'data' handler pushes while the file is read.
keptRows(table) == KeptFrom(table.header, table.body)

\* The Set the 'data' handler of merge fills with trimmed keys.
rawKeySet(rows) == {rows[i].val[KeyCol] : i \in 1..Len(rows)}

trimmedKeySet(rows) == {trim(rows[i].val[KeyCol]) : i \in 1..Len(rows)}

LowerOf(c) ==
    CASE c = "K" -> "k" [] c = "C" -> "c" [] c = "T" -> "t" [] c = "E" -> "e"
      [] c = "F" -> "f" [] c = "I" -> "i" [] OTHER -> c

UpperOf(c) ==
    CASE c = "k" -> "K" [] c = "c" -> "C" [] c = "t" -> "T" [] c = "e" -> "E"
      [] c = "f" -> "F" [] c = "i" -> "I" [] OTHER -> c

LowerAlnum == {"a", "c", "d", "e", "f", "i", "k", "m", "n", "o", "p", "r", "s",
               "t", "y"} \cup Range(DigitChars)

\* lang.toLowerCase().replace(/[^a-z0-9]/g, '-'), the name of the file
\* without its .csv
fileSafeName(lang) ==
    [i \in 1..Len(lang) |->
        IF LowerOf(lang[i]) \in LowerAlnum THEN LowerOf(lang[i]) ELSE "-"]

\* path.basename(file, '.csv') with every '-' a space and every word
\* capitalised.
titleCase(base) ==
    [i \in 1..Len(base) |->
        IF base[i] = "-" THEN " "
        ELSE IF i = 1 \/ base[i - 1] \in {"-", " "} THEN UpperOf(base[i])
        ELSE base[i]]

Reserved == {KeyCol, CommentsCol, TimestampCol}

RECURSIVE langHeadersOf(_)
langHeadersOf(headers) ==
    IF headers = <<>> THEN <<>>
    ELSE (IF Head(headers) \in Reserved THEN <<>> ELSE <<Head(headers)>>)
         \o langHeadersOf(Tail(headers))

\* The two-column file split writes for one language.
langFile(rows, lang) ==
    [header |-> <<KeyCol, lang>>,
     body |-> [i \in 1..Len(rows) |-> <<rows[i].val[KeyCol], OrEmpty(rows[i], lang)>>]]

\* The files of the output directory after the loop over langHeaders from
\* position j on: a later language overwrites an earlier file of its name.
RECURSIVE writeLangFiles(_, _, _, _)
writeLangFiles(files, rows, langs, j) ==
    IF j > Len(langs) THEN files
    ELSE LET name == fileSafeName(langs[j])
             next == [f \in (DOMAIN files) \cup {name} |->
                        IF f = name THEN langFile(rows, langs[j]) ELSE files[f]]
         IN  writeLangFiles(next, rows, langs, j + 1)

\* What split does with the input file and the output directory: the outcome
\* and the directory afterwards. mkdirSync comes first, whatever follows.
split(input, dir) ==
    LET made == [dir EXCEPT !.exists = TRUE]
        rows == keptRows(input.rows)
        headers == rows[1].keys
    IN  IF ~input.exists THEN [outcome |-> "error", dir |-> made]
        ELSE IF Len(rows) = 0 THEN [outcome |-> "empty", dir |-> made]
        ELSE [outcome |-> "ok",
              dir |-> [exists |-> TRUE,
                       headers |-> headers,
                       files |-> writeLangFiles(dir.files, rows,
                                                langHeadersOf(headers), 1)]]

\* newLangValues: row[Object.keys(row)[1]] || ''
secondValue(row) == IF Len(row.keys) >= 2 THEN row.val[row.keys[2]] ELSE <<>>

\* One row of the output file: csv-writer prints record[id] for every header
\* id, an undefined field as the empty string.
outputLine(extended, outputHeaders) ==
    [h \in 1..Len(outputHeaders) |->
        IF outputHeaders[h] \in DOMAIN extended
        THEN extended[outputHeaders[h]] ELSE <<>>]

\* { ...row } with extended[newLangName] = value
extendRow(row, newLangName, value) ==
    [n \in (DOMAIN row.val) \cup {newLangName} |->
        IF n = newLangName THEN value ELSE row.val[n]]

alignByKey(origRows, newRows, index) ==
    LET hits == {j \in 1..Len(newRows) :
                    trim(newRows[j].val[KeyCol]) = trim(origRows[index].val[KeyCol])}
    IN  IF hits = {} THEN <<>>
        ELSE secondValue(newRows[CHOOSE j \in hits : \A k \in hits : j <= k])

\* (index < newLangValues.length) ? newLangValues[index] : ''
alignByOrder(origRows, newRows, index) ==
    IF index <= Len(newRows) THEN secondValue(newRows[index]) ELSE <<>>

reconcile(origKeys, newKeys) ==
    LET matchingKeys == {k \in origKeys : k \in newKeys}
        missingInNew == {k \in origKeys : k \notin newKeys}
        ignoredInNew == {k \in newKeys : k \notin origKeys}
        expectedMatches == Cardinality(origKeys) - Cardinality(missingInNew)
    IN  [matchingKeys |-> matchingKeys, missingInNew |-> missingInNew,
         ignoredInNew |-> ignoredInNew,
         warned |-> Cardinality(matchingKeys) # expectedMatches]

NoDiag == [matchingKeys |-> {}, missingInNew |-> {}, ignoredInNew |-> {},
           warned |-> FALSE]

\* What merge does with the original file, the new language file (base its
\* name without .csv) and the output file: the outcome, the diagnostics
\* logged and the output file afterwards.
merge(original, newLang, base, output) ==
    LET origRows == keptRows(original.rows)
        newRows == keptRows(newLang.rows)
        origHeaders == origRows[1].keys
        newLangHeaders == newRows[1].keys
        actualLangCol == newLangHeaders[2]
        newLangName == IF actualLangCol # <<>> THEN actualLangCol ELSE titleCase(base)
        diag == reconcile(trimmedKeySet(origRows), trimmedKeySet(newRows))
        outputHeaders == Append(origHeaders, newLangName)
        extendedRows ==
            [i \in 1..Len(origRows) |->
                extendRow(origRows[i], newLangName, alignByOrder(origRows, newRows, i))]
        fail(why) == [outcome |-> why, newLangName |-> <<>>, diag |-> NoDiag,
                      output |-> output]
    IN  IF ~original.exists \/ ~newLang.exists THEN fail("missing")
        ELSE IF Len(origRows) = 0 THEN fail("empty-original")
        ELSE IF Len(newRows) = 0 THEN fail("empty-new")
        ELSE IF Len(newLangHeaders) # 2 \/ newLangHeaders[1] # KeyCol
             THEN fail("schema")
        ELSE [outcome |-> "ok", newLangName |-> newLangName, diag |-> diag,
              output |-> File([header |-> outputHeaders,
                               body |-> [i \in 1..Len(origRows) |->
                                     outputLine(extendedRows[i], outputHeaders)]])]

(***************************************************************************)
(* The files split and merge are run on. Cell (c, i) of a master CSV holds *)
(* the text "p<c>r<i>", value j of a translated file the text "v<j>", so   *)
(* that every cell tells where it came from.                               *)
(***************************************************************************)
KeyPool == {<<" ">>, <<" ", "A">>, <<"B">>}
NewKeyPool == {<<" ">>, <<"A">>, <<"C">>}

MasterCell(c, i) == <<"p">> \o Digits(c) \o <<"r">> \o Digits(i)
NewCell(j) == <<"v">> \o Digits(j)

\* A master body: line i has the key keys[i] and a cell for each of the other
\* ncols - 1 columns, except line short, which has its key only.
MasterBody(keys, ncols, short) ==
    [i \in 1..Len(keys) |->
        IF i = short THEN <<keys[i]>>
        ELSE <<keys[i]>> \o [c \in 1..(ncols - 1) |-> MasterCell(c + 1, i)]]

NewBody(keys, ncols) ==
    [j \in 1..Len(keys) |-> <<keys[j]>> \o [c \in 1..(ncols - 1) |-> NewCell(j)]]

MasterHeaders == { <<KeyCol, EnCol, CommentsCol>>, <<KeyCol, EnCol, FrCol>>,
                   <<KeyCol, NumCol, EnCol>> }

\* Masters with every header, at most one short line.
VariedMasters ==
    {[header |-> h, body |-> MasterBody(keys, Len(h), short)] :
        h \in MasterHeaders,
        keys \in SeqsUpTo(KeyPool, MaxMergeRows),
        short \in 0..MaxMergeRows}

\* Masters Key,En with full lines.
PlainMasters ==
    {[header |-> <<KeyCol, EnCol>>, body |-> MasterBody(keys, 2, 0)] :
        keys \in SeqsUpTo(KeyPool, MaxMergeRows)}

\* Translated files Key,Fr.
GoodNewLangs ==
    {[header |-> <<KeyCol, FrCol>>, body |-> NewBody(keys, 2)] :
        keys \in SeqsUpTo(NewKeyPool, MaxMergeRows)}

\* Translated files of another shape: a column named like one of the master,
\* one column, Key not first, three columns, an integer-like name, an empty
\* name.
OddNewLangs ==
    {[header |-> h, body |-> NewBody(<< <<"A">>, <<"B">> >>, Len(h))] :
        h \in { <<KeyCol, EnCol>>, <<KeyCol>>, <<FrCol, KeyCol>>,
                <<KeyCol, FrCol, EnCol>>, <<KeyCol, NumCol>>, <<KeyCol, <<>> >> }}

\* new lang file of merge: id.csv, or a file of the split directory
NewLangBase == <<"i", "d">>

InitMerger ==
    /\ \/ /\ originalCsv \in {File(t) : t \in PlainMasters}
          /\ newLangCsv \in {File(t) : t \in GoodNewLangs \cup OddNewLangs}
       \/ /\ originalCsv \in {Absent} \cup {File(t) : t \in VariedMasters}
          /\ newLangCsv = Absent
    /\ splitDir = NoDir
    /\ mergedCsv = Absent
    /\ mExit = 0
    /\ mRun = NoMergerRun
    /\ ValidatorIdle
    /\ ApplierIdle

\* node csv_translator.js <anything but split or merge>
BadMode ==
    /\ mExit' = 1
    /\ mRun' = [NoMergerRun EXCEPT !.cmd = "usage", !.outcome = "usage"]
    /\ UNCHANGED <<originalCsv, newLangCsv, splitDir, mergedCsv,
                   validatorVars, applierVars>>

\* node csv_translator.js split|merge with an argument missing
MissingArgs(mode) ==
    /\ mExit' = 0
    /\ mRun' = [NoMergerRun EXCEPT !.cmd = mode, !.outcome = "usage"]
    /\ UNCHANGED <<originalCsv, newLangCsv, splitDir, mergedCsv,
                   validatorVars, applierVars>>

\* node csv_translator.js split original.csv out/
Split ==
    LET res == split(originalCsv, splitDir)
    IN  /\ splitDir' = res.dir
        /\ mExit' = 0
        /\ mRun' = [NoMergerRun EXCEPT !.cmd = "split", !.outcome = res.outcome]
        /\ UNCHANGED <<originalCsv, newLangCsv, mergedCsv,
                       validatorVars, applierVars>>

NewLangFile(base) ==
    IF base = NewLangBase THEN newLangCsv ELSE File(splitDir.files[base])

\* node csv_translator.js merge original.csv <base>.csv merged.csv
Merge(base) ==
    LET res == merge(originalCsv, NewLangFile(base), base, mergedCsv)
    IN  /\ mergedCsv' = res.output
        /\ mExit' = 0
        /\ mRun' = [cmd |-> "merge", outcome |-> res.outcome, newLang |-> base,
                    newLangName |-> res.newLangName,
                    matchingKeys |-> res.diag.matchingKeys,
                    missingInNew |-> res.diag.missingInNew,
                    ignoredInNew |-> res.diag.ignoredInNew,
                    warned |-> res.diag.warned]
        /\ UNCHANGED <<originalCsv, newLangCsv, splitDir,
                       validatorVars, applierVars>>

NextMerger ==
    \/ BadMode
    \/ \E mode \in {"split", "merge"} : MissingArgs(mode)
    \/ Split
    \/ \E base \in {NewLangBase} \cup DOMAIN splitDir.files : Merge(base)

SpecMerger == InitMerger /\ [][NextMerger]_vars

(***************************************************************************)
(* Properties of the column splitter / merger, stated on the lines of the  *)
(* files rather than on the row objects of the code.                       *)
(***************************************************************************)
HasKeyCell(header, line) ==
    /\ KeyCol \in Range(header)
    /\ Len(line) >= IndexOfName(header, KeyCol)
    /\ trim(line[IndexOfName(header, KeyCol)]) # <<>>

KeyOfLine(header, line) == trim(line[IndexOfName(header, KeyCol)])

RECURSIVE RetainedFrom(_, _)
RetainedFrom(header, body) ==
    IF body = <<>> THEN <<>>
    ELSE (IF HasKeyCell(header, Head(body)) THEN <<Head(body)>> ELSE <<>>)
         \o RetainedFrom(header, Tail(body))

\* The lines of a file with a non-empty trimmed Key, in file order.
Retained(file) == RetainedFrom(file.rows.header, file.rows.body)

\* Cell of a line under a column name, the empty string when absent.
CellOf(header, line, name) ==
    IF name \in Range(header) /\ Len(line) >= IndexOfName(header, name)
    THEN line[IndexOfName(header, name)] ELSE <<>>

KeysOfFile(file) ==
    {KeyOfLine(file.rows.header, Retained(file)[i]) : i \in 1..Len(Retained(file))}

MergedOk == mRun.cmd = "merge" /\ mRun.outcome = "ok"

Ex_Master ==
    File([header |-> <<KeyCol, EnCol>>,
          body |-> MasterBody(<< <<"A">>, <<"A">>, <<"B">> >>, 2, 0)])
Ex_NewLang ==
    File([header |-> <<KeyCol, FrCol>>,
          body |-> NewBody(<< <<"A">>, <<"A">>, <<"B">> >>, 2)])
Ex_Merged == merge(Ex_Master, Ex_NewLang, NewLangBase, Absent).output.rows

\* C1: merge aligns by position, never by key. The output has one row per
\* retained primary line, in the primary's order, and the appended (last)
\* column of output row i is the second cell of the i-th retained secondary
\* line when there is one, the empty string otherwise; with primary keys
\* [K1,K1,K2] and secondary values [v1,v1b,v2] the rows carry v1, v1b, v2.
C1_PositionalMerge ==
    /\ MergedOk =>
          LET P == Retained(originalCsv)
              S == Retained(NewLangFile(mRun.newLang))
              out == mergedCsv.rows
          IN  /\ mergedCsv.exists
              /\ Len(out.body) = Len(P)
              /\ \A i \in 1..Len(P) :
                    /\ out.body[i][Len(out.header)] =
                          (IF i <= Len(S) /\ Len(S[i]) >= 2 THEN S[i][2] ELSE <<>>)
                    /\ CellOf(out.header, out.body[i], KeyCol) =
                          CellOf(originalCsv.rows.header, P[i], KeyCol)
    /\ Len(Ex_Merged.body) = 3
    /\ \A i \in 1..3 : Ex_Merged.body[i] = <<Ex_Master.rows.body[i][1],
                                             MasterCell(2, i), NewCell(i)>>

\* A merge of two primary rows with the same key against a secondary whose
\* first line is dropped: one value to place, one row left empty.
C1_Witness ==
    /\ MergedOk
    /\ Len(Retained(originalCsv)) = 2
    /\ KeyOfLine(originalCsv.rows.header, Retained(originalCsv)[1])
         = KeyOfLine(originalCsv.rows.header, Retained(originalCsv)[2])
    /\ Len(NewLangFile(mRun.newLang).rows.body) = 2
    /\ Len(Retained(NewLangFile(mRun.newLang))) = 1
    /\ mergedCsv.rows.body[1][3] = NewCell(2)
    /\ mergedCsv.rows.body[2][3] = <<>>

\* The failures of split and merge: a missing file (for split, the read
\* error it raises), no line with a non-empty Key, a secondary that is not
\* Key plus one column.
Failures == {"error", "empty", "missing", "empty-original", "empty-new", "schema"}

\* C5: split and merge end with a non-zero exit status whenever they fail
\* (missing file, schema violation, no line with a Key), and status 0 means
\* the output was written.
C5_ExitStatus ==
    (mRun.cmd \in {"split", "merge"} /\ mRun.outcome # "usage") =>
        /\ (mRun.outcome \in Failures => mExit # 0)
        /\ (mExit = 0 => mRun.outcome = "ok")

NoDuplicateKeys(file) ==
    \A i, j \in 1..Len(Retained(file)) :
        KeyOfLine(file.rows.header, Retained(file)[i])
            = KeyOfLine(file.rows.header, Retained(file)[j]) => i = j

\* The property of C6 for the languages lang satisfies Covered(lang).
RoundTripFor(Covered(_)) ==
    (/\ mRun.cmd = "merge"
     /\ mRun.newLang \in DOMAIN splitDir.files
     /\ Covered(splitDir.files[mRun.newLang].header[2])
     /\ NoDuplicateKeys(originalCsv)) =>
        LET lang == splitDir.files[mRun.newLang].header[2]
            P == Retained(originalCsv)
            out == mergedCsv.rows
        IN  /\ mRun.outcome = "ok"
            /\ Len(out.body) = Len(P)
            /\ \A i \in 1..Len(P) :
                  out.body[i][Len(out.header)] =
                      CellOf(originalCsv.rows.header, P[i], lang)

AnyLang(lang) == TRUE
NotIndexLang(lang) == ~IsArrayIndex(lang)

\* C6: for a master without duplicate keys, merging any file split produced
\* back against the unmodified master gives an output whose added column
\* holds, row for row, the values of that language column of the master.
C6_RoundTrip == RoundTripFor(AnyLang)

\* The same for the languages whose name is not an integer-like property
\* name: the round trip holds for them.
C6_RoundTripNamed == RoundTripFor(NotIndexLang)

\* C7: when the primary already has a column named like the secondary's
\* second header, the output header is the primary header followed by that
\* name once more, and the column the primary already had keeps the
\* primary's own values in every output row.
C7_DuplicateColumn ==
    LET secHeader == NewLangFile(mRun.newLang).rows.header
        P == Retained(originalCsv)
        out == mergedCsv.rows
    IN  (MergedOk /\ secHeader[2] \in Range(originalCsv.rows.header)) =>
            /\ out.header = Append(originalCsv.rows.header, secHeader[2])
            /\ \A i \in 1..Len(P) :
                  CellOf(originalCsv.rows.header, out.body[i], secHeader[2])
                      = CellOf(originalCsv.rows.header, P[i], secHeader[2])

Key_A == <<"A">>
Key_B == <<"B">>
Key_C == <<"C">>
Key_D == <<"D">>

\* C8: over the sets P and S of distinct trimmed keys of the two files,
\* matching = P \cap S, missing = P \ S, extra = S \ P, however often a key
\* repeats; |matching| = |P| - |missing|, the inconsistency warning is never
\* emitted, and the merge writes one row per retained primary line whatever
\* the diagnostics are.
C8_Reconciler ==
    /\ ~mRun.warned
    /\ MergedOk =>
          LET P == KeysOfFile(originalCsv)
              S == KeysOfFile(NewLangFile(mRun.newLang))
          IN  /\ mRun.matchingKeys = P \cap S
              /\ mRun.missingInNew = P \ S
              /\ mRun.ignoredInNew = S \ P
              /\ Cardinality(mRun.matchingKeys)
                    = Cardinality(P) - Cardinality(mRun.missingInNew)
              /\ Len(mergedCsv.rows.body) = Len(Retained(originalCsv))
    /\ reconcile({Key_A, Key_B, Key_C}, {Key_B, Key_C, Key_D})
          = [matchingKeys |-> {Key_B, Key_C}, missingInNew |-> {Key_A},
             ignoredInNew |-> {Key_D}, warned |-> FALSE]

\* A merge with a matching, a missing and an extra key, one key written with
\* a leading space.
C8_Witness ==
    /\ MergedOk
    /\ mRun.matchingKeys = {Key_A}
    /\ mRun.missingInNew = {Key_B}
    /\ mRun.ignoredInNew = {Key_C}
    /\ \E i \in 1..Len(originalCsv.rows.body) :
          originalCsv.rows.body[i][1] = <<" ", "A">>

====
